---- MODULE Spec2Model ----
(***************************************************************************)
(* ESP32 oscilloscope firmware (serial version): the acquisition           *)
(* controller loop(), the command handler process_command(), send_data(),  *)
(* the trigger evaluator check_trigger() and the I2S buffer fill.          *)
(*                                                                         *)
(* Representation                                                          *)
(*  - text (command lines, printed fields) is TLA+ strings, handled        *)
(*    character by character as String::trim / startsWith / substring /    *)
(*    toInt / toFloat and Print::print do;                                 *)
(*  - a uint32_t is held as its 32-bit word read as a two's-complement     *)
(*    integer (the model checker's integers are 32 bits wide): words       *)
(*    0 .. 2^31-1 are themselves, and a word w < 0 stands for the          *)
(*    unsigned value 2^32 + w;                                             *)
(*  - a float voltage is held in millivolts (three decimals); the          *)
(*    trigger threshold trigger_level / 3.3 * 4095.0 is compared with a    *)
(*    sample by cross-multiplication, exactly.                             *)
(***************************************************************************)
EXTENDS Integers, Sequences, FiniteSets, TLC

\* ------------------------------------------------------------------ bounds

\* Length of adc_buffer in the model (the firmware's BUFFER_SIZE is 2000).
BUFFER_SIZE == 2

\* 16-bit words the I2S DMA read may deliver (bits 12..15 carry the channel).
RawWords == {0, 64440}

\* Lines the host may send; readStringUntil('\n') delivers them unterminated.
Lines ==
    { "START", " START\r", "start", "STOP", "STOPX",
      "RATE:50000", "RATE:-5", "RATE:abc", "RATE:",
      "TRIG_MODE:0", "TRIG_MODE:1", "TRIG_MODE:2", "TRIG_MODE:7", "TRIG_MODE:x",
      "TRIG_LEVEL:1.65", "TRIG_LEVEL:5.0", "TRIG_LEVEL:",
      "TRIG_EDGE:0", "TRIG_EDGE:1",
      "GET_DATA", "PING", "STATUS",
      "PROBE:10", "PROBE:100", "PROBE:5", "PROBE:266", "PROBE:356",
      "FOO", "" }

\* The value of cmd when no line was read.
NoLine == "<none>"

\* ------------------------------------------------------- program constants

LONG_MAX == 2147483647
LONG_MIN == -2147483647 - 1
ADC_MASK == 4095
FULL_SCALE_MV == 3300
MAX_CODE == 4095

\* ------------------------------------------------------------------- text

IsSpace(c) == c \in {" ", "\t", "\n", "\r", "\f"}

IsDigit(c) == c \in {"0", "1", "2", "3", "4", "5", "6", "7", "8", "9"}

DigitVal(c) ==
    CASE c = "0" -> 0 [] c = "1" -> 1 [] c = "2" -> 2 [] c = "3" -> 3
      [] c = "4" -> 4 [] c = "5" -> 5 [] c = "6" -> 6 [] c = "7" -> 7
      [] c = "8" -> 8 [] c = "9" -> 9

DigitChar(d) ==
    CASE d = 0 -> "0" [] d = 1 -> "1" [] d = 2 -> "2" [] d = 3 -> "3"
      [] d = 4 -> "4" [] d = 5 -> "5" [] d = 6 -> "6" [] d = 7 -> "7"
      [] d = 8 -> "8" [] d = 9 -> "9"

RECURSIVE SkipSpace(_)
SkipSpace(s) ==
    IF Len(s) > 0 /\ IsSpace(Head(s)) THEN SkipSpace(Tail(s)) ELSE s

RECURSIVE DropTrailingSpace(_)
DropTrailingSpace(s) ==
    IF Len(s) > 0 /\ IsSpace(SubSeq(s, Len(s), Len(s)))
    THEN DropTrailingSpace(SubSeq(s, 1, Len(s) - 1))
    ELSE s

\* Trimming that forgets the trailing blanks.
Trim_leading(s) == SkipSpace(s)

\* String::trim
Trim(s) == DropTrailingSpace(SkipSpace(s))

\* String::startsWith
StartsWith(s, p) == Len(s) >= Len(p) /\ SubSeq(s, 1, Len(p)) = p

\* String::substring(left), left counted from 0
Substring(s, left) == IF left >= Len(s) THEN "" ELSE SubSeq(s, left + 1, Len(s))

\* The digits of s accumulated on the negative side, saturating at LONG_MIN.
RECURSIVE NegDigits(_, _)
NegDigits(s, acc) ==
    IF Len(s) = 0 \/ ~IsDigit(Head(s)) THEN acc
    ELSE LET d == DigitVal(Head(s))
             sat == acc < -214748364 \/ (acc = -214748364 /\ d > 8)
         IN  NegDigits(Tail(s), IF sat THEN LONG_MIN ELSE acc * 10 - d)

\* String::toInt (atol): blanks, an optional sign, then digits; 0 without digits.
ToInt(s) ==
    LET t == SkipSpace(s)
        neg == Len(t) > 0 /\ Head(t) = "-"
        signed == Len(t) > 0 /\ Head(t) \in {"-", "+"}
        m == NegDigits(IF signed THEN Tail(t) ELSE t, 0)
    IN  IF neg THEN m
        ELSE IF m = LONG_MIN THEN LONG_MAX ELSE -m

\* The head of s that consists of digits, and what follows it.
RECURSIVE DigitRun(_)
DigitRun(s) ==
    IF Len(s) = 0 \/ ~IsDigit(Head(s)) THEN ""
    ELSE SubSeq(s, 1, 1) \o DigitRun(Tail(s))

\* String::toFloat (atof) on plain decimals, in millivolts: blanks, an optional
\* sign, digits, an optional point and digits (the first three are kept);
\* 0 without digits.  The integer part saturates at 1000000 V.
ToFloat(s) ==
    LET t == SkipSpace(s)
        neg == Len(t) > 0 /\ Head(t) = "-"
        signed == Len(t) > 0 /\ Head(t) \in {"-", "+"}
        u == IF signed THEN Tail(t) ELSE t
        ip == DigitRun(u)
        rest == Substring(u, Len(ip))
        fp == IF Len(rest) > 0 /\ Head(rest) = "." THEN DigitRun(Tail(rest)) ELSE ""
        fd(i) == IF Len(fp) >= i THEN DigitVal(SubSeq(fp, i, i)) ELSE 0
        iv == -NegDigits(IF Len(ip) > 7 THEN "1000000" ELSE ip, 0)
        mv == iv * 1000 + fd(1) * 100 + fd(2) * 10 + fd(3)
    IN  IF neg THEN -mv ELSE mv

\* Print::print of a non-negative number, in decimal.
RECURSIVE DecNat(_)
DecNat(n) ==
    IF n < 10 THEN DigitChar(n) ELSE DecNat(n \div 10) \o DigitChar(n % 10)

\* Print::print(uint32_t): the word w printed as the unsigned value it holds
\* (for w < 0 that is 2^32 + w = 10 * 429496729 + 6 + w).
DecU32(w) ==
    IF w >= 0 THEN DecNat(w)
    ELSE DecNat(429496729 + ((6 + w) \div 10)) \o DigitChar((6 + w) % 10)

\* Print::print(float, 2) of a voltage held in millivolts.
Fixed2(mv) ==
    LET a == IF mv < 0 THEN -mv ELSE mv
        c == (a + 5) \div 10
        frac == c % 100
    IN  (IF mv < 0 THEN "-" ELSE "") \o DecNat(c \div 100) \o "."
        \o DigitChar(frac \div 10) \o DigitChar(frac % 10)

\* (uint32_t) of a long: the same 32-bit word.
ToU32(n) == n

\* (uint8_t) of a long
ToU8(n) == n % 256

\* ------------------------------------------------------------------ state

VARIABLES
    pc,                 \* "setup": before setup(); "poll": at the top of loop();
                        \* "acquire": in loop(), after the command check
    is_running,         \* bool is_running
    sample_rate,        \* uint32_t sample_rate (its 32-bit word)
    trigger_mode,       \* uint8_t trigger_mode
    trigger_level,      \* float trigger_level (millivolts)
    trigger_edge,       \* bool trigger_edge, TRUE = rising
    probe_attenuation,  \* uint8_t probe_attenuation
    adc_buffer,         \* uint16_t adc_buffer[BUFFER_SIZE]
    adc_chars,          \* how many times adc_chars was characterized
    i2s,                \* the I2S driver: installed, ADC enabled, configured rate
    last,               \* the step taken last
    cmd,                \* the line that step read from Serial (trimmed), or NoLine
    dma_ok,             \* whether that step's i2s_read delivered the whole buffer
    temp_buffer,        \* the words that step's ADC_Sampling found in temp_buffer
    tx,                 \* the lines that step wrote to Serial
    fn                  \* a routine called on its own: its arguments and result

config == <<sample_rate, trigger_mode, trigger_level, trigger_edge, probe_attenuation>>

vars == <<pc, is_running, sample_rate, trigger_mode, trigger_level, trigger_edge,
          probe_attenuation, adc_buffer, adc_chars, i2s, last, cmd, dma_ok,
          temp_buffer, tx, fn>>

\* The variables of the controller, which a routine called on its own leaves alone.
controller == <<pc, is_running, sample_rate, trigger_mode, trigger_level,
                trigger_edge, probe_attenuation, adc_buffer, adc_chars, i2s, last,
                cmd, dma_ok, temp_buffer, tx>>

\* The value of fn when no routine was called on its own.
NoCall == [name |-> "none"]

\* A line written to Serial: the text up to the first field, the
\* comma-separated text fields, and (DATA only) the samples that follow them.
Line(head, fields, samples) == [head |-> head, fields |-> fields, samples |-> samples]

\* Serial.println(text)
Println(text) == Line(text, <<>>, <<>>)

\* A power-on state with the controller stopped.
Init_stopped ==
    /\ pc = "setup"
    /\ is_running = FALSE
    /\ sample_rate = 100000
    /\ trigger_mode = 0
    /\ trigger_level = 1650
    /\ trigger_edge = TRUE
    /\ probe_attenuation = 1
    /\ adc_buffer = [i \in 1..BUFFER_SIZE |-> 0]
    /\ adc_chars = 0
    /\ i2s = [installed |-> FALSE, enabled |-> FALSE, rate |-> 0, log |-> <<>>]
    /\ last = "init"
    /\ cmd = NoLine
    /\ dma_ok = TRUE
    /\ temp_buffer = <<>>
    /\ tx = <<>>
    /\ fn = NoCall

Init ==
    /\ pc = "setup"
    /\ is_running = TRUE
    /\ sample_rate = 100000
    /\ trigger_mode = 0
    /\ trigger_level = 1650
    /\ trigger_edge = TRUE
    /\ probe_attenuation = 1
    /\ adc_buffer = [i \in 1..BUFFER_SIZE |-> 0]
    /\ adc_chars = 0
    /\ i2s = [installed |-> FALSE, enabled |-> FALSE, rate |-> 0, log |-> <<>>]
    /\ last = "init"
    /\ cmd = NoLine
    /\ dma_ok = TRUE
    /\ temp_buffer = <<>>
    /\ tx = <<>>
    /\ fn = NoCall

\* ---------------------------------------------------------------- i2s.ino

\* The driver d: whether it is installed, whether its ADC is enabled, the
\* rate it was installed with, and log, the driver calls made by the routine
\* that touched it last.

\* i2s_adc_disable
i2s_adc_disable(d) ==
    [d EXCEPT !.enabled = FALSE, !.log = Append(@, "i2s_adc_disable")]

\* i2s_driver_uninstall
i2s_driver_uninstall(d) ==
    [installed |-> FALSE, enabled |-> FALSE, rate |-> 0,
     log |-> Append(d.log, "i2s_driver_uninstall")]

\* i2s_driver_install: an installed driver is left as it is
i2s_driver_install(d, rate) ==
    [installed |-> TRUE,
     enabled |-> d.installed /\ d.enabled,
     rate |-> IF d.installed THEN d.rate ELSE rate,
     log |-> Append(d.log, "i2s_driver_install")]

\* i2s_adc_enable: needs an installed driver
i2s_adc_enable(d) ==
    [d EXCEPT !.enabled = d.installed, !.log = Append(@, "i2s_adc_enable")]

\* configure_i2s on the driver d: i2s_driver_install with .sample_rate, then
\* i2s_adc_enable
configure_i2s(d, sampling_rate) ==
    i2s_adc_enable(i2s_driver_install(d, sampling_rate))

\* The driver at the start of a routine that calls it.
Entering(d) == [d EXCEPT !.log = <<>>]

\* A copy that keeps the channel bits of each word.
Masked_whole_word(raw) == [i \in 1..BUFFER_SIZE |-> raw[i]]

\* ADC_Sampling: buffer[i] = temp_buffer[i] & 0x0FFF for every i
Masked(raw) == [i \in 1..BUFFER_SIZE |-> raw[i] % (ADC_MASK + 1)]

\* --------------------------------------------------------------- filters.h

\* A float that is a ratio of integers is held as the fraction <<n, d>>, d > 0.
Frac(n, d) == <<n, d>>

FracLt(a, b) == a[1] * b[2] < b[1] * a[2]

FracGt(a, b) == a[1] * b[2] > b[1] * a[2]

FracEq(a, b) == a[1] * b[2] = b[1] * a[2]

\* (uint16_t) of a non-negative float: its integer part
Truncated(a) == a[1] \div a[2]

\* data[1] + ... + data[n]
RECURSIVE SumTo(_, _)
SumTo(data, n) == IF n = 0 THEN 0 ELSE SumTo(data, n - 1) + data[n]

\* mean_filter(values): the window is capped at 100
mean_filter_values(values) == IF values > 100 THEN 100 ELSE values

\* mean_filter::reset in the place of init: _data[0 .. _values-1] = 0
mean_filter_reset(values, value) == [i \in 1..values |-> 0]

\* mean_filter::init: _data[0 .. _values-1] = value
mean_filter_init(values, value) == [i \in 1..values |-> value]

\* A filter call that leaves the new reading out of the sum.
mean_filter_filter_no_reading(data, reading) ==
    LET k == Len(data)
    IN  [out |-> Frac(SumTo(data, k - 1), k),
         data |-> [i \in 1..k |-> IF i < k THEN data[i + 1] ELSE reading]]

\* mean_filter::filter on the window data (_values = Len(data)): the reading
\* is stored in the last place, the places before it are summed and shifted
\* down by one, and the reading is added; out is the sum over _values.
mean_filter_filter(data, reading) ==
    LET k == Len(data)
        stored == [data EXCEPT ![k] = reading]
        temp == SumTo(stored, k - 1) + reading
    IN  [out |-> Frac(temp, k),
         data |-> [i \in 1..k |-> IF i < k THEN stored[i + 1] ELSE stored[k]]]

\* ------------------------------------------------------------------ adc.ino

\* The largest uint16_t.
UINT16_MAX == 65535

\* voltage / 3.3 * 4095.0 with the fraction dropped (towards zero), voltage
\* in millivolts.
Scaled(voltage) ==
    IF voltage >= 0 THEN (voltage * MAX_CODE) \div FULL_SCALE_MV
    ELSE -((-voltage * MAX_CODE) \div FULL_SCALE_MV)

\* from_voltage: the values (uint16_t)(voltage / 3.3 * 4095.0) can take. The
\* conversion is defined when the integer part fits uint16_t; otherwise the
\* standard leaves it undefined and a build gives the wrapped low 16 bits or
\* a saturated end of the range.
from_voltage(voltage) ==
    LET t == Scaled(voltage)
    IN  IF t \in 0..UINT16_MAX THEN {t}
        ELSE {0, t % (UINT16_MAX + 1), UINT16_MAX}

\* ------------------------------------------------------- data_analysis.ino

\* The loop of peak_mean from index i (counted from 1) on: the filter window,
\* the extrema so far and the sum of the raw samples so far.
RECURSIVE PeakScan(_, _, _, _, _, _)
PeakScan(buffer, i, data, mx, mn, sum) ==
    IF i > Len(buffer) THEN [max |-> mx, min |-> mn, sum |-> sum]
    ELSE LET r == mean_filter_filter(data, buffer[i])
         IN  PeakScan(buffer, i + 1, r.data,
                      IF FracGt(r.out, mx) THEN r.out ELSE mx,
                      IF FracLt(r.out, mn) THEN r.out ELSE mn,
                      sum + buffer[i])

\* A peak_mean whose extrema follow the raw samples.
peak_mean_unfiltered(buffer) ==
    LET N == Len(buffer)
        hi == CHOOSE x \in {buffer[i] : i \in 1..N} : \A i \in 1..N : buffer[i] <= x
        lo == CHOOSE x \in {buffer[i] : i \in 1..N} : \A i \in 1..N : buffer[i] >= x
    IN  [max |-> Frac(hi, 1), min |-> Frac(lo, 1), mean |-> Frac(SumTo(buffer, N), N)]

\* peak_mean: max and min start at buffer[0] and follow the output of a
\* mean_filter(5) started at buffer[0]; mean is the sum of the samples over len
peak_mean(buffer) ==
    LET r == PeakScan(buffer, 1, mean_filter_init(mean_filter_values(5), buffer[1]),
                      Frac(buffer[1], 1), Frac(buffer[1], 1), 0)
    IN  [max |-> r.max, min |-> r.min, mean |-> Frac(r.sum, Len(buffer))]

\* A side test that puts a sample equal to mean on the upper side.
Above_or_equal(sample, mean) == sample * mean[2] >= mean[1]

\* bool side = (buffer[i] > mean)
Above(sample, mean) == sample * mean[2] > mean[1]

\* The crossings counted by the loop of calculate_frequency from index i
\* (counted from 1) on, signal_side being the side of the sample before.
RECURSIVE Crossings(_, _, _, _)
Crossings(buffer, i, mean, signal_side) ==
    IF i > Len(buffer) THEN 0
    ELSE LET current_side == Above(buffer[i], mean)
         IN  (IF ~signal_side /\ current_side THEN 1 ELSE 0)
             + Crossings(buffer, i + 1, mean, current_side)

\* calculate_frequency: with more than one crossing, freq is
\* crossing_count / (len / sample_rate) and period is 1 / freq; else both 0.
\* rate is sample_rate as a number (a word below 2^31).
calculate_frequency(buffer, rate, mean) ==
    LET crossing_count == Crossings(buffer, 2, mean, Above(buffer[1], mean))
    IN  IF crossing_count > 1
        THEN [freq |-> Frac(crossing_count * rate, Len(buffer)),
              period |-> Frac(Len(buffer), crossing_count * rate)]
        ELSE [freq |-> Frac(0, 1), period |-> Frac(0, 1)]


\* A comparison that takes a sample equal to the trigger value as below it.
Lt_or_equal(sample, level) == sample * FULL_SCALE_MV <= level * MAX_CODE

\* buffer value < trigger_value, where trigger_value = level / 3.3 * 4095.0
Lt(sample, level) == sample * FULL_SCALE_MV < level * MAX_CODE

Gt(sample, level) == sample * FULL_SCALE_MV > level * MAX_CODE

\* The loop of check_trigger from index i (counted from 0) on.
RECURSIVE ScanFrom(_, _, _, _)
ScanFrom(buffer, i, level, rising) ==
    IF i >= Len(buffer) THEN FALSE
    ELSE IF rising
         THEN IF Lt(buffer[i], level) /\ ~Lt(buffer[i + 1], level) THEN TRUE
              ELSE ScanFrom(buffer, i + 1, level, rising)
         ELSE IF Gt(buffer[i], level) /\ ~Gt(buffer[i + 1], level) THEN TRUE
              ELSE ScanFrom(buffer, i + 1, level, rising)

\* A trigger check without the Auto shortcut.
check_trigger_no_auto(mode, buffer, level, rising) ==
    ScanFrom(buffer, 1, level, rising)

\* A trigger check whose scan starts one pair late.
check_trigger_late(mode, buffer, level, rising) ==
    IF mode = 0 THEN TRUE ELSE ScanFrom(buffer, 2, level, rising)

\* check_trigger; mode is the global trigger_mode it reads
check_trigger(mode, buffer, level, rising) ==
    IF mode = 0 THEN TRUE ELSE ScanFrom(buffer, 1, level, rising)

\* ------------------------------------------------------------- send_data

\* Print::print(float, 2) of a non-negative float held as a fraction.
FracFixed2(a) ==
    LET c == (200 * a[1] + a[2]) \div (2 * a[2])
        frac == c % 100
    IN  DecNat(c \div 100) \o "." \o DigitChar(frac \div 10) \o DigitChar(frac % 10)

\* (to_voltage(max_v) - to_voltage(min_v)) * probe_attenuation.  The
\* calibration curve of esp_adc_cal_raw_to_voltage is not part of the program
\* text: the field is held as the two codes to_voltage receives (the floats
\* narrowed to uint16_t) and the factor.
VppField(pm, probe) ==
    [hi |-> Truncated(pm.max), lo |-> Truncated(pm.min), probe |-> probe]

\* to_voltage(mean) * probe_attenuation, held likewise.
MeanField(pm, probe) == [code |-> Truncated(pm.mean), probe |-> probe]

\* A DATA line that always prints the default rate.
DataLine_default_rate(rate, probe, buffer) ==
    LET pm == peak_mean(buffer)
        f == calculate_frequency(buffer, 100000, pm.mean)
    IN  Line("DATA:",
             <<DecU32(100000), FracFixed2(f.freq), VppField(pm, probe),
               MeanField(pm, probe)>>,
             buffer)

\* send_data, the DATA line: the sample rate, the frequency, the
\* peak-to-peak and the mean voltage, then the samples of the buffer.
DataLine(rate, probe, buffer) ==
    LET pm == peak_mean(buffer)
        f == calculate_frequency(buffer, rate, pm.mean)
    IN  Line("DATA:",
             <<DecU32(rate), FracFixed2(f.freq), VppField(pm, probe),
               MeanField(pm, probe)>>,
             buffer)

\* A STATUS line with the rate and the mode in each other's place.
StatusLine_swapped(running, rate, mode, level, edge) ==
    Line("STATUS:",
         << IF running THEN "1" ELSE "0", DecNat(mode), DecU32(rate),
            Fixed2(level), IF edge THEN "1" ELSE "0" >>,
         <<>>)

\* The STATUS line.
StatusLine(running, rate, mode, level, edge) ==
    Line("STATUS:",
         << IF running THEN "1" ELSE "0", DecU32(rate), DecNat(mode),
            Fixed2(level), IF edge THEN "1" ELSE "0" >>,
         <<>>)

\* --------------------------------------------------------- process_command

\* sample_rate = cmd.substring(5).toInt()
RateOf(arg) == ToU32(ToInt(arg))

\* trigger_mode = cmd.substring(10).toInt()
ModeOf(arg) == ToU8(ToInt(arg))

\* trigger_level = cmd.substring(11).toFloat()
LevelOf(arg) == ToFloat(arg)

\* trigger_edge = (cmd.substring(10).toInt() == 1)
EdgeOf(arg) == ToInt(arg) = 1

\* probe_attenuation = cmd.substring(6).toInt(), then 1 unless it is 1, 10 or 100
ProbeOf(arg) ==
    LET p == ToU8(ToInt(arg))
    IN  IF p # 1 /\ p # 10 /\ p # 100 THEN 1 ELSE p

CmdStart ==
    /\ is_running' = TRUE
    /\ tx' = <<Println("ACK:START")>>
    /\ UNCHANGED <<config, i2s>>

\* STOP that toggles the run state instead of clearing it.
CmdStop_toggle ==
    /\ is_running' = ~is_running
    /\ tx' = <<Println("ACK:STOP")>>
    /\ UNCHANGED <<config, i2s>>

CmdStop ==
    /\ is_running' = FALSE
    /\ tx' = <<Println("ACK:STOP")>>
    /\ UNCHANGED <<config, i2s>>

\* A rate change that configures without removing the installed driver.
Reconfigured_no_uninstall(d, rate) == configure_i2s(i2s_adc_disable(d), rate)

\* i2s_adc_disable, i2s_driver_uninstall, then configure_i2s(sample_rate)
Reconfigured(d, rate) ==
    configure_i2s(i2s_driver_uninstall(i2s_adc_disable(d)), rate)

CmdRate(arg) ==
    /\ sample_rate' = RateOf(arg)
    /\ i2s' = Reconfigured(Entering(i2s), sample_rate')
    /\ tx' = <<Println("ACK:RATE")>>
    /\ UNCHANGED <<is_running, trigger_mode, trigger_level, trigger_edge,
                   probe_attenuation>>

CmdTrigMode(arg) ==
    /\ trigger_mode' = ModeOf(arg)
    /\ tx' = <<Println("ACK:TRIG_MODE")>>
    /\ UNCHANGED <<is_running, sample_rate, trigger_level, trigger_edge,
                   probe_attenuation, i2s>>

CmdTrigLevel(arg) ==
    /\ trigger_level' = LevelOf(arg)
    /\ tx' = <<Println("ACK:TRIG_LEVEL")>>
    /\ UNCHANGED <<is_running, sample_rate, trigger_mode, trigger_edge,
                   probe_attenuation, i2s>>

CmdTrigEdge(arg) ==
    /\ trigger_edge' = EdgeOf(arg)
    /\ tx' = <<Println("ACK:TRIG_EDGE")>>
    /\ UNCHANGED <<is_running, sample_rate, trigger_mode, trigger_level,
                   probe_attenuation, i2s>>

\* A forced emission that counts as the emission of a Single-mode cycle.
CmdGetData_single_stop ==
    /\ tx' = <<DataLine(sample_rate, probe_attenuation, adc_buffer)>>
    /\ is_running' = IF trigger_mode = 2 THEN FALSE ELSE is_running
    /\ UNCHANGED <<config, i2s>>

CmdGetData ==
    /\ tx' = <<DataLine(sample_rate, probe_attenuation, adc_buffer)>>
    /\ UNCHANGED <<is_running, config, i2s>>

CmdPing ==
    /\ tx' = <<Println("PONG")>>
    /\ UNCHANGED <<is_running, config, i2s>>

CmdProbe(arg) ==
    /\ probe_attenuation' = ProbeOf(arg)
    /\ tx' = <<Println("ACK:PROBE")>>
    /\ UNCHANGED <<is_running, sample_rate, trigger_mode, trigger_level,
                   trigger_edge, i2s>>

\* A STATUS that reports the edge the other way round.
CmdStatus_edge_inverted ==
    /\ tx' = <<StatusLine(is_running, sample_rate, trigger_mode, trigger_level,
                          ~trigger_edge)>>
    /\ UNCHANGED <<is_running, config, i2s>>

CmdStatus ==
    /\ tx' = <<StatusLine(is_running, sample_rate, trigger_mode, trigger_level,
                          trigger_edge)>>
    /\ UNCHANGED <<is_running, config, i2s>>

\* No branch of the if / else-if chain matches.
CmdNone ==
    /\ tx' = <<>>
    /\ UNCHANGED <<is_running, config, i2s>>

process_command(line) ==
    LET c == Trim(line)
    IN  IF c = "START" THEN CmdStart
        ELSE IF c = "STOP" THEN CmdStop
        ELSE IF StartsWith(c, "RATE:") THEN CmdRate(Substring(c, 5))
        ELSE IF StartsWith(c, "TRIG_MODE:") THEN CmdTrigMode(Substring(c, 10))
        ELSE IF StartsWith(c, "TRIG_LEVEL:") THEN CmdTrigLevel(Substring(c, 11))
        ELSE IF StartsWith(c, "TRIG_EDGE:") THEN CmdTrigEdge(Substring(c, 10))
        ELSE IF c = "GET_DATA" THEN CmdGetData
        ELSE IF c = "PING" THEN CmdPing
        ELSE IF StartsWith(c, "PROBE:") THEN CmdProbe(Substring(c, 6))
        ELSE IF c = "STATUS" THEN CmdStatus
        ELSE CmdNone

\* ------------------------------------------------------------ setup, loop

\* A setup that skips characterize_adc.
Setup_uncharacterized ==
    /\ pc = "setup"
    /\ i2s' = configure_i2s(Entering(i2s), sample_rate)
    /\ tx' = <<Println("ESP32_OSC_READY")>>
    /\ pc' = "poll"
    /\ last' = "setup"
    /\ cmd' = NoLine
    /\ dma_ok' = TRUE
    /\ temp_buffer' = <<>>
    /\ UNCHANGED <<is_running, config, adc_buffer, adc_chars, fn>>

\* setup(): characterize_adc, configure_i2s(sample_rate), the ready banner
Setup ==
    /\ pc = "setup"
    /\ adc_chars' = adc_chars + 1
    /\ i2s' = configure_i2s(Entering(i2s), sample_rate)
    /\ tx' = <<Println("ESP32_OSC_READY")>>
    /\ pc' = "poll"
    /\ last' = "setup"
    /\ cmd' = NoLine
    /\ dma_ok' = TRUE
    /\ temp_buffer' = <<>>
    /\ UNCHANGED <<is_running, config, adc_buffer, fn>>

\* loop(), Serial.available(): one line is read and handled
LoopCommand ==
    /\ pc = "poll"
    /\ \E line \in Lines :
          /\ process_command(line)
          /\ cmd' = line
    /\ pc' = "acquire"
    /\ last' = "command"
    /\ dma_ok' = TRUE
    /\ temp_buffer' = <<>>
    /\ UNCHANGED <<adc_buffer, adc_chars, fn>>

\* loop(), nothing available on Serial
LoopNoCommand ==
    /\ pc = "poll"
    /\ pc' = "acquire"
    /\ last' = "nocommand"
    /\ cmd' = NoLine
    /\ dma_ok' = TRUE
    /\ temp_buffer' = <<>>
    /\ tx' = <<>>
    /\ UNCHANGED <<is_running, config, adc_buffer, adc_chars, i2s, fn>>

\* An acquisition cycle that ignores the run state.
Acquires_always(running) == TRUE

\* if (is_running)
Acquires(running) == running

\* Emission after every fill.
Emits_always(mode, triggered) == TRUE

\* Emission in Auto mode only.
Emits_auto_only(mode, triggered) == mode = 0

\* if (trigger_mode == 0 || triggered)
Emits(mode, triggered) == mode = 0 \/ triggered

\* Stopping after an emission in every mode but Auto.
StopsAfterEmit_not_auto(mode) == mode # 0

\* Stopping after an emission in Single mode and every mode above it.
StopsAfterEmit_from_single(mode) == mode >= 2

\* Stopping after an emission in Normal mode instead of Single mode.
StopsAfterEmit_normal(mode) == mode = 1

\* if (trigger_mode == 2) is_running = false
StopsAfterEmit(mode) == mode = 2

\* loop(), is_running: one acquisition cycle.  ADC_Sampling copies the
\* BUFFER_SIZE words of temp_buffer whatever i2s_read delivered; when the read
\* falls short those words are whatever the stack held.
LoopAcquire ==
    /\ pc = "acquire"
    /\ Acquires(is_running)
    /\ \E raw \in [1..BUFFER_SIZE -> RawWords], ok \in BOOLEAN :
          LET buffer == Masked(raw)
              triggered == check_trigger(trigger_mode, buffer, trigger_level,
                                         trigger_edge)
              emit == Emits(trigger_mode, triggered)
          IN  /\ adc_buffer' = buffer
              /\ temp_buffer' = raw
              /\ dma_ok' = ok
              /\ tx' = IF emit
                       THEN <<DataLine(sample_rate, probe_attenuation, buffer)>>
                       ELSE <<>>
              /\ is_running' = IF emit /\ StopsAfterEmit(trigger_mode)
                               THEN FALSE ELSE is_running
    /\ pc' = "poll"
    /\ last' = "acquire"
    /\ cmd' = NoLine
    /\ UNCHANGED <<config, adc_chars, i2s, fn>>

\* loop(), not running: delay(100)
LoopIdle ==
    /\ pc = "acquire"
    /\ ~Acquires(is_running)
    /\ pc' = "poll"
    /\ last' = "idle"
    /\ cmd' = NoLine
    /\ dma_ok' = TRUE
    /\ temp_buffer' = <<>>
    /\ tx' = <<>>
    /\ UNCHANGED <<is_running, config, adc_buffer, adc_chars, i2s, fn>>

Next == Setup \/ LoopCommand \/ LoopNoCommand \/ LoopAcquire \/ LoopIdle

Spec == Init /\ [][Next]_vars

\* ------------------------------------------- routines called on their own

\* The longest buffer handed to a routine called on its own.
FnLen == 4

\* All sequences over S of length 1 .. n.
SeqsUpTo(S, n) == UNION {[1..k -> S] : k \in 1..n}

\* Trigger modes, samples and levels (millivolts: below the range, at its
\* ends, mid-scale between two codes, above the range) for check_trigger.
TrigModes == {0, 1, 2, 7}

TrigSamples == {0, 2047, 2048, 4095}

TrigLevels == {-500, 0, 1650, 3300, 5000}

\* check_trigger(buffer, len, trigger_v, rising) with trigger_mode = mode and
\* trigger_v = level / 3.3 * 4095.0
CallCheckTrigger ==
    /\ fn = NoCall
    /\ \E mode \in TrigModes, buffer \in SeqsUpTo(TrigSamples, FnLen),
          level \in TrigLevels, rising \in BOOLEAN :
          fn' = [name |-> "check_trigger", mode |-> mode, buffer |-> buffer,
                 level |-> level, rising |-> rising,
                 result |-> check_trigger(mode, buffer, level, rising)]
    /\ UNCHANGED controller

\* Samples, means (one equal to a sample, one between two samples) and rates
\* for calculate_frequency.
FreqSamples == {1, 2, 3}

FreqMeans == {Frac(2, 1), Frac(3, 2)}

FreqRates == {10000, 50000}

\* calculate_frequency(buffer, len, sample_rate, mean, &freq, &period)
CallCalculateFrequency ==
    /\ fn = NoCall
    /\ \E buffer \in SeqsUpTo(FreqSamples, FnLen), rate \in FreqRates,
          mean \in FreqMeans :
          LET r == calculate_frequency(buffer, rate, mean)
          IN  fn' = [name |-> "calculate_frequency", buffer |-> buffer,
                     rate |-> rate, mean |-> mean,
                     freq |-> r.freq, period |-> r.period]
    /\ UNCHANGED controller

\* Samples for peak_mean: the ends of the code range and one inside.
PeakSamples == {0, 1000, 4095}

\* peak_mean(buffer, len, &max, &min, &mean)
CallPeakMean ==
    /\ fn = NoCall
    /\ \E buffer \in SeqsUpTo(PeakSamples, FnLen) :
          LET r == peak_mean(buffer)
          IN  fn' = [name |-> "peak_mean", buffer |-> buffer,
                     max |-> r.max, min |-> r.min, mean |-> r.mean]
    /\ UNCHANGED controller

\* Constructor arguments (the last one above the cap), start values and
\* readings for a mean_filter, and the most calls made on one filter.
FilterValues == {1, 2, 3, 5, 100, 101}

FilterReadings == {0, 1, 7}

FilterCalls == 3

\* mean_filter filter(values); filter.init(value);
FilterInit ==
    /\ fn = NoCall
    /\ \E values \in FilterValues, value \in FilterReadings :
          fn' = [name |-> "mean_filter",
                 values |-> mean_filter_values(values), value |-> value,
                 data |-> mean_filter_init(mean_filter_values(values), value),
                 readings |-> <<>>, outs |-> <<>>]
    /\ UNCHANGED controller

\* filter.filter(reading) on the filter in hand
FilterCall ==
    /\ fn.name = "mean_filter"
    /\ Len(fn.readings) < FilterCalls
    /\ \E reading \in FilterReadings :
          LET r == mean_filter_filter(fn.data, reading)
          IN  fn' = [fn EXCEPT !.data = r.data,
                               !.readings = Append(@, reading),
                               !.outs = Append(@, r.out)]
    /\ UNCHANGED controller

\* Voltages in millivolts for from_voltage: below the range, around zero,
\* mid-scale, just under full scale and above it.
Voltages == {-1000, -1, 0, 1, 1650, 3299, 5000}

\* from_voltage(voltage)
CallFromVoltage ==
    /\ fn = NoCall
    /\ \E voltage \in Voltages : \E result \in from_voltage(voltage) :
          fn' = [name |-> "from_voltage", voltage |-> voltage,
                 result |-> result]
    /\ UNCHANGED controller

\* The routine returns; its record is dropped.
Return ==
    /\ fn # NoCall
    /\ fn' = NoCall
    /\ UNCHANGED controller

NextFn ==
    \/ CallCheckTrigger
    \/ CallCalculateFrequency
    \/ CallPeakMean
    \/ FilterInit
    \/ FilterCall
    \/ CallFromVoltage
    \/ Return

SpecFn == Init /\ [][NextFn]_vars

\* ----------------------------------------------------------------- claims

\* The number of DATA lines among the lines t.
DataCount(t) == Cardinality({i \in 1..Len(t) : t[i].head = "DATA:"})

\* Some adjacent pair of buffer crosses the level (in volts / 3.3 * 4095) in
\* the selected direction.
EdgeIn(buffer, level, rising) ==
    \E i \in 1..(Len(buffer) - 1) :
        IF rising
        THEN /\ buffer[i] * FULL_SCALE_MV < level * MAX_CODE
             /\ buffer[i + 1] * FULL_SCALE_MV >= level * MAX_CODE
        ELSE /\ buffer[i] * FULL_SCALE_MV > level * MAX_CODE
             /\ buffer[i + 1] * FULL_SCALE_MV <= level * MAX_CODE

\* C1: TRIG_MODE:2 stores Single; a running cycle in Single mode whose buffer
\* holds a qualifying edge emits exactly one DATA line and stops the
\* controller; while stopped, acquisition steps emit no DATA line and leave the
\* controller stopped, and a STATUS handled then reports running = 0.
C1_SingleShot ==
    [][ /\ (cmd' = "TRIG_MODE:2" => trigger_mode' = 2)
        /\ (pc = "acquire" /\ is_running /\ trigger_mode = 2
              /\ EdgeIn(adc_buffer', trigger_level, trigger_edge)
            => DataCount(tx') = 1 /\ Len(tx') = 1 /\ ~is_running')
        /\ (pc = "acquire" /\ ~is_running => DataCount(tx') = 0 /\ ~is_running')
        /\ (~is_running /\ cmd' = "STATUS"
            => /\ Len(tx') = 1
               /\ tx'[1].head = "STATUS:"
               /\ tx'[1].fields[1] = "0"
               /\ ~is_running')
      ]_vars

\* C1 witness: a Single-mode cycle has emitted its one DATA line and stopped.
C1_Witness ==
    /\ last = "acquire"
    /\ trigger_mode = 2
    /\ ~is_running
    /\ DataCount(tx) = 1
    /\ EdgeIn(adc_buffer, trigger_level, trigger_edge)

\* C2: after every acquisition cycle, a DATA line was emitted iff the mode is
\* Auto or the trigger evaluator returns true for the cycle's buffer, and at
\* most one line was emitted.
C2_EmitIffTriggered ==
    last = "acquire" =>
        /\ Len(tx) <= 1
        /\ DataCount(tx) = Len(tx)
        /\ (DataCount(tx) = 1 <=>
              \/ trigger_mode = 0
              \/ check_trigger(trigger_mode, adc_buffer, trigger_level, trigger_edge))

\* C2 witness: a Normal-mode cycle that triggered and emitted.
C2_Witness ==
    /\ last = "acquire"
    /\ trigger_mode = 1
    /\ DataCount(tx) = 1

\* C3: a step taken while stopped performs no fill: it is not an acquisition
\* cycle and leaves the sample buffer as it was, and the acquisition part of
\* the loop emits nothing; the step that emits ACK:STOP leaves the controller
\* stopped.
C3_StoppedNoSampling ==
    [][ /\ (~is_running
            => /\ last' # "acquire"
               /\ adc_buffer' = adc_buffer
               /\ (pc = "acquire" => tx' = <<>> /\ ~is_running'))
        /\ (Len(tx') = 1 /\ tx'[1].head = "ACK:STOP" => ~is_running')
      ]_vars

\* C3 witness: the loop idled while stopped, the buffer holding earlier samples.
C3_Witness ==
    /\ last = "idle"
    /\ ~is_running
    /\ \E i \in 1..BUFFER_SIZE : adc_buffer[i] # 0

\* C4: START leaves the controller running and emits exactly ACK:START, STOP
\* leaves it stopped and emits exactly ACK:STOP, from every state, and
\* neither changes the rate, the trigger settings or the probe attenuation.
C4_StartStop ==
    [][ /\ (cmd' = "START"
            => is_running' /\ tx' = <<Println("ACK:START")>> /\ config' = config)
        /\ (cmd' = "STOP"
            => ~is_running' /\ tx' = <<Println("ACK:STOP")>> /\ config' = config)
      ]_vars

\* C4 witness: STOP was handled with a configuration that is not the default.
C4_Witness ==
    /\ last = "command"
    /\ cmd = "STOP"
    /\ ~is_running
    /\ tx = <<Println("ACK:STOP")>>
    /\ sample_rate = 50000
    /\ trigger_mode = 1

\* C5: the stored configuration is always valid: trigger_mode is 0, 1 or 2,
\* trigger_edge is rising or falling, probe_attenuation is 1, 10 or 100.
C5_ConfigValid ==
    /\ trigger_mode \in {0, 1, 2}
    /\ trigger_edge \in BOOLEAN
    /\ probe_attenuation \in {1, 10, 100}

\* C6: after PROBE:n the probe attenuation is n when n is 1, 10 or 100 and 1
\* for every other n, and ACK:PROBE is the output.
C6_ProbeClamp ==
    last = "command" /\ StartsWith(cmd, "PROBE:") =>
        LET n == ToInt(Substring(cmd, 6))
        IN  /\ probe_attenuation = IF n \in {1, 10, 100} THEN n ELSE 1
            /\ tx = <<Println("ACK:PROBE")>>

\* C7: the sample rate is always within 10 kHz .. 1 MHz (a negative word holds
\* an unsigned value of 2^31 or more, which is out of range too).
C7_RateInRange ==
    /\ sample_rate >= 0
    /\ 10000 <= sample_rate
    /\ sample_rate <= 1000000

\* The text a is the decimal numeral of a rate within 10 kHz .. 1 MHz.
LegalRateText(a) ==
    /\ Len(a) \in 5..7
    /\ \A i \in 1..Len(a) : IsDigit(SubSeq(a, i, i))
    /\ Head(a) # "0"
    /\ (Len(a) = 7 => a = "1000000")

\* C8: RATE:r with a legal r stores r, so that r is the rate text printed
\* from then on; a step that handles no RATE command keeps the rate; every
\* STATUS line carries the stored rate as its second field and every DATA
\* line as its first.
C8_RateRoundTrip ==
    [][ /\ (StartsWith(cmd', "RATE:") /\ LegalRateText(Substring(cmd', 5))
            => DecU32(sample_rate') = Substring(cmd', 5))
        /\ (~StartsWith(Trim(cmd'), "RATE:") => sample_rate' = sample_rate)
        /\ \A i \in 1..Len(tx') :
              /\ (tx'[i].head = "STATUS:" => tx'[i].fields[2] = DecU32(sample_rate'))
              /\ (tx'[i].head = "DATA:" => tx'[i].fields[1] = DecU32(sample_rate'))
      ]_vars

\* C8 witness: STATUS answered with the rate set by RATE:50000.
C8_Witness ==
    /\ last = "command"
    /\ cmd = "STATUS"
    /\ sample_rate = 50000
    /\ tx[1].fields[2] = "50000"

\* Lines of the host that match no keyword, also after trimming.
UnknownLines == {"start", "STOPX", "FOO", ""}

\* C9: a line that matches no keyword produces no output and changes nothing;
\* a keyword surrounded by blanks is still that command.
C9_UnknownIgnored ==
    [][ /\ (cmd' \in UnknownLines
            => /\ tx' = <<>>
               /\ UNCHANGED <<is_running, config, adc_buffer, i2s, adc_chars>>)
        /\ (cmd' = " START\r" => is_running' /\ tx' = <<Println("ACK:START")>>)
      ]_vars

\* C9 witness: a keyword in the wrong case was read and nothing was written.
C9_Witness ==
    /\ last = "command"
    /\ cmd = "start"
    /\ tx = <<>>

\* Lines with a keyword prefix whose argument is missing or not a number.
MalformedLines == {"RATE:abc", "RATE:", "TRIG_MODE:x", "TRIG_LEVEL:"}

\* C10: a malformed command produces no output and changes no configuration.
C10_MalformedIgnored ==
    [][ cmd' \in MalformedLines
        => tx' = <<>> /\ UNCHANGED <<is_running, config>>
      ]_vars

\* C11: the RATE handler calls i2s_adc_disable, i2s_driver_uninstall,
\* i2s_driver_install and i2s_adc_enable in this order and answers ACK:RATE with
\* the driver installed, enabled and set to the new rate; from setup on,
\* hence at every fill, the driver is installed and enabled at sample_rate.
C11_RateReconfigure ==
    /\ (pc # "setup" => i2s.installed /\ i2s.enabled /\ i2s.rate = sample_rate)
    /\ (last = "command" /\ StartsWith(cmd, "RATE:")
        => /\ i2s.log = <<"i2s_adc_disable", "i2s_driver_uninstall",
                          "i2s_driver_install", "i2s_adc_enable">>
           /\ i2s.rate = ToInt(Substring(cmd, 5))
           /\ tx = <<Println("ACK:RATE")>>)

\* C11 witness: a fill took place after the rate was changed to 50000.
C11_Witness ==
    /\ last = "acquire"
    /\ sample_rate = 50000
    /\ i2s.rate = 50000
    /\ i2s.enabled
    /\ Len(i2s.log) = 4

\* C12: an acquisition cycle reads no command and changes no setting; its
\* emission decision follows the mode, level and edge it started with, and its
\* DATA line carries the rate and the probe factor it started with and the
\* samples of its own fill.
C12_RoundUsesCommitted ==
    [][ pc = "acquire" /\ is_running
        => /\ cmd' = NoLine
           /\ config' = config
           /\ (Len(tx') = 1 <=>
                 trigger_mode = 0 \/ EdgeIn(adc_buffer', trigger_level, trigger_edge))
           /\ \A i \in 1..Len(tx') :
                 /\ tx'[i].head = "DATA:"
                 /\ tx'[i].fields[1] = DecU32(sample_rate)
                 /\ tx'[i].fields[3].probe = probe_attenuation
                 /\ tx'[i].fields[4].probe = probe_attenuation
                 /\ tx'[i].samples = adc_buffer'
      ]_vars

\* C12 witness: a cycle emitted with settings that commands had changed.
C12_Witness ==
    /\ last = "acquire"
    /\ sample_rate = 50000
    /\ probe_attenuation = 10
    /\ trigger_mode = 1
    /\ ~trigger_edge
    /\ Len(tx) = 1

\* C13: in Auto mode check_trigger returns true for every buffer, every
\* level (also outside the sample range) and either edge.
C13_AutoAlwaysTriggers ==
    fn.name = "check_trigger" /\ fn.mode = 0 => fn.result

\* C13 witness: Auto mode, a level above the range, no edge in the buffer.
C13_Witness ==
    /\ fn.name = "check_trigger"
    /\ fn.mode = 0
    /\ fn.level = 5000
    /\ Len(fn.buffer) = FnLen
    /\ ~EdgeIn(fn.buffer, fn.level, fn.rising)
    /\ fn.result

\* No sample of buffer is greater than the one before it.
NonIncreasing(buffer) ==
    \A i \in 1..(Len(buffer) - 1) : buffer[i + 1] <= buffer[i]

\* C14: outside Auto mode check_trigger returns true iff some adjacent pair
\* goes from below the level to at or above it (rising) or from above the
\* level to at or below it (falling); with the rising edge and a
\* non-increasing buffer it returns false.
C14_EdgeScan ==
    fn.name = "check_trigger" /\ fn.mode # 0 =>
        /\ (fn.result <=> EdgeIn(fn.buffer, fn.level, fn.rising))
        /\ (fn.rising /\ NonIncreasing(fn.buffer) => ~fn.result)

\* C14 witness: Normal mode, a falling edge found in the first pair only.
C14_Witness ==
    /\ fn.name = "check_trigger"
    /\ fn.mode = 1
    /\ ~fn.rising
    /\ fn.level = 1650
    /\ fn.buffer = <<2048, 2047, 2047, 2047>>
    /\ fn.result

\* The frequency and period of the call are those of k rising transitions:
\* k * sample_rate / N and its inverse when k > 1, both 0 otherwise.
FrequencyOf(k) ==
    IF k > 1
    THEN /\ FracEq(fn.freq, Frac(k * fn.rate, Len(fn.buffer)))
         /\ FracEq(fn.period, Frac(Len(fn.buffer), k * fn.rate))
    ELSE fn.freq[1] = 0 /\ fn.period[1] = 0

\* C15 as stated: k counts the indices where the sample before is below the
\* mean and the sample is at or above it; frequency is k * sample_rate / N
\* when k > 1 and frequency and period are 0 when k <= 1.
C15_AtOrAboveIsUpper ==
    fn.name = "calculate_frequency" =>
        FrequencyOf(Cardinality({i \in 2..Len(fn.buffer) :
            /\ fn.buffer[i - 1] * fn.mean[2] < fn.mean[1]
            /\ fn.buffer[i] * fn.mean[2] >= fn.mean[1]}))

\* C15 amended: k counts the indices where the sample before is at or below
\* the mean and the sample is strictly above it (a sample equal to the mean
\* is on the lower side); frequency is k * sample_rate / N when k > 1 and
\* frequency and period are 0 when k <= 1.
C15_StrictlyAboveIsUpper ==
    fn.name = "calculate_frequency" =>
        FrequencyOf(Cardinality({i \in 2..Len(fn.buffer) :
            /\ fn.buffer[i - 1] * fn.mean[2] <= fn.mean[1]
            /\ fn.buffer[i] * fn.mean[2] > fn.mean[1]}))

\* C15 witness: a buffer alternating between the mean and a sample above
\* it, two transitions counted.
C15_Witness ==
    /\ fn.name = "calculate_frequency"
    /\ fn.buffer = <<2, 3, 2, 3>>
    /\ fn.mean = Frac(2, 1)
    /\ fn.rate = 10000
    /\ fn.freq = Frac(20000, 4)

\* C16: for a buffer whose samples all equal c, peak_mean returns
\* max = min = mean = c.
C16_ConstantBuffer ==
    fn.name = "peak_mean" /\ (\A i \in 1..Len(fn.buffer) : fn.buffer[i] = fn.buffer[1])
        => /\ FracEq(fn.max, Frac(fn.buffer[1], 1))
           /\ FracEq(fn.min, Frac(fn.buffer[1], 1))
           /\ FracEq(fn.mean, Frac(fn.buffer[1], 1))

\* C16 witness: the longest buffer, every sample at the top code.
C16_Witness ==
    /\ fn.name = "peak_mean"
    /\ fn.buffer = [i \in 1..FnLen |-> 4095]
    /\ FracEq(fn.min, Frac(4095, 1))
    /\ FracEq(fn.mean, Frac(4095, 1))

\* The sum of the last k elements of s.
SumOfLast(s, k) == SumTo(SubSeq(s, Len(s) - k + 1, Len(s)), k)

\* C17: after init(c) on a filter of window K, the output of the i-th call
\* is the mean of the last K elements of K copies of c followed by the
\* first i readings; a constant stream c returns c on every call.
C17_WindowMean ==
    fn.name = "mean_filter" =>
        /\ fn.values \in 1..100
        /\ Len(fn.outs) = Len(fn.readings)
        /\ \A i \in 1..Len(fn.readings) :
              /\ FracEq(fn.outs[i],
                        Frac(SumOfLast([j \in 1..fn.values |-> fn.value]
                                       \o SubSeq(fn.readings, 1, i), fn.values),
                             fn.values))
              /\ ((\A j \in 1..i : fn.readings[j] = fn.value)
                  => FracEq(fn.outs[i], Frac(fn.value, 1)))

\* C17 witness: a window of 3 started at 7 and fed 0, 1, 1: the last output
\* is the mean of the three readings, the start value gone.
C17_Witness ==
    /\ fn.name = "mean_filter"
    /\ fn.values = 3
    /\ fn.value = 7
    /\ fn.readings = <<0, 1, 1>>
    /\ fn.outs = <<Frac(14, 3), Frac(8, 3), Frac(2, 3)>>

\* round(voltage / 3.3 * 4095) clamped to [0, 4095], voltage in millivolts.
RoundedClamped(voltage) ==
    IF voltage <= 0 THEN 0
    ELSE LET r == (2 * voltage * MAX_CODE + FULL_SCALE_MV) \div (2 * FULL_SCALE_MV)
         IN  IF r > MAX_CODE THEN MAX_CODE ELSE r

\* C18: for every voltage, also below 0 and above full scale, from_voltage
\* returns round(voltage / 3.3 * 4095) clamped to [0, 4095].
C18_RoundAndClamp ==
    fn.name = "from_voltage" => fn.result = RoundedClamped(fn.voltage)

\* C19: every element of the sample buffer is in [0, 4095] in every
\* reachable state, and after a round every position of the buffer holds the
\* masked word of that round's fill, which is the buffer the trigger check
\* and the DATA frame of the round have read.
C19_BufferInRange ==
    /\ Len(adc_buffer) = BUFFER_SIZE
    /\ \A i \in 1..BUFFER_SIZE : adc_buffer[i] \in 0..MAX_CODE
    /\ (last = "acquire" =>
           /\ Len(temp_buffer) = BUFFER_SIZE
           /\ \A i \in 1..BUFFER_SIZE :
                 adc_buffer[i] = temp_buffer[i] % (MAX_CODE + 1)
           /\ \A k \in 1..Len(tx) : tx[k].samples = adc_buffer
           /\ (trigger_mode # 0 =>
                 (Len(tx) = 1 <=> EdgeIn([i \in 1..BUFFER_SIZE |->
                                             temp_buffer[i] % (MAX_CODE + 1)],
                                         trigger_level, trigger_edge))))

\* C19 witness: a round whose first word carries channel bits above the
\* sample, emitted after the mask.
C19_Witness ==
    /\ last = "acquire"
    /\ temp_buffer = [i \in 1..BUFFER_SIZE |-> IF i = 1 THEN 64440 ELSE 0]
    /\ adc_buffer = [i \in 1..BUFFER_SIZE |-> IF i = 1 THEN 3000 ELSE 0]
    /\ Len(tx) = 1

\* C20: a round whose i2s_read failed or came short emits no DATA frame and
\* leaves the run state as it was; the loop goes on to the next iteration.
C20_FailedRoundDiscarded ==
    [][ pc = "acquire" /\ is_running /\ ~dma_ok'
        => /\ DataCount(tx') = 0
           /\ is_running' = is_running
           /\ pc' = "poll" ]_vars

\* C21: setup characterises the calibration once, configures the sampling
\* pipeline and writes ESP32_OSC_READY once; before it nothing was read from
\* or written to Serial and no DATA frame (the only place a voltage is
\* converted) was sent; after it neither the characterisation nor the banner
\* happens again.
C21_Startup ==
    [][ /\ (pc = "setup" =>
               /\ adc_chars = 0 /\ ~i2s.installed /\ ~i2s.enabled
               /\ tx = <<>> /\ cmd = NoLine /\ last = "init"
               /\ adc_chars' = 1
               /\ i2s'.log = <<"i2s_driver_install", "i2s_adc_enable">>
               /\ i2s'.installed /\ i2s'.enabled /\ i2s'.rate = sample_rate
               /\ tx' = <<Println("ESP32_OSC_READY")>>
               /\ cmd' = NoLine
               /\ pc' = "poll")
        /\ (pc # "setup" =>
               /\ pc' # "setup"
               /\ adc_chars' = 1
               /\ \A k \in 1..Len(tx') : tx'[k].head # "ESP32_OSC_READY") ]_vars

\* C21 witness: the state right after setup.
C21_Witness ==
    /\ last = "setup"
    /\ adc_chars = 1
    /\ i2s.enabled
    /\ tx = <<Println("ESP32_OSC_READY")>>

\* C22: GET_DATA writes exactly one DATA frame built from the buffer as it
\* is, in either run state and any trigger mode, with no fill and no change
\* to the buffer, the run state or the configuration.
C22_GetData ==
    [][ pc = "poll" /\ Trim(cmd') = "GET_DATA"
        => /\ Len(tx') = 1
           /\ tx'[1].head = "DATA:"
           /\ tx'[1].samples = adc_buffer
           /\ tx'[1].fields[1] = DecU32(sample_rate)
           /\ tx'[1].fields[3].probe = probe_attenuation
           /\ temp_buffer' = <<>>
           /\ adc_buffer' = adc_buffer
           /\ is_running' = is_running
           /\ config' = config ]_vars

\* C22 witness: GET_DATA while running in Single mode with a level no buffer
\* reaches: the frame is sent and the controller is still running.
C22_Witness ==
    /\ last = "command"
    /\ cmd = "GET_DATA"
    /\ is_running
    /\ trigger_mode = 2
    /\ trigger_level = 5000
    /\ adc_buffer[1] = 3000
    /\ DataCount(tx) = 1

\* C23: STATUS writes one line whose fields are the run state (1 or 0), the
\* sample rate, the trigger mode, the trigger level with two decimals and
\* the trigger edge (1 rising, 0 falling) as they stand; PING writes exactly
\* PONG; neither changes any state.
C23_StatusPing ==
    [][ /\ (pc = "poll" /\ Trim(cmd') = "STATUS"
            => /\ Len(tx') = 1
               /\ tx'[1].head = "STATUS:"
               /\ tx'[1].fields = << IF is_running THEN "1" ELSE "0",
                                     DecU32(sample_rate), DecNat(trigger_mode),
                                     Fixed2(trigger_level),
                                     IF trigger_edge THEN "1" ELSE "0" >>
               /\ <<is_running, config, adc_buffer, i2s>>'
                     = <<is_running, config, adc_buffer, i2s>>)
        /\ (pc = "poll" /\ Trim(cmd') = "PING"
            => /\ tx' = <<Println("PONG")>>
               /\ <<is_running, config, adc_buffer, i2s>>'
                     = <<is_running, config, adc_buffer, i2s>>) ]_vars

\* C23 witness: STATUS after a Single-mode stop, a falling edge and a rate
\* change.
C23_Witness ==
    /\ last = "command"
    /\ cmd = "STATUS"
    /\ tx = <<Line("STATUS:", <<"0", "50000", "2", "1.65", "0">>, <<>>)>>

\* Some adjacent pair of buffer crosses the integer sample code in the
\* selected direction.
CodeEdgeIn(buffer, code, rising) ==
    \E i \in 1..(Len(buffer) - 1) :
        IF rising
        THEN buffer[i] < code /\ buffer[i + 1] >= code
        ELSE buffer[i] > code /\ buffer[i + 1] <= code

\* C24: the level a cycle hands to check_trigger is from_voltage(trigger_level),
\* an integer sample code in [0, 4095], and the trigger decision is the one
\* obtained by comparing the buffer against that code.
C24_LevelIsSampleCode ==
    fn.name = "check_trigger" =>
        \A code \in from_voltage(fn.level) :
            /\ code \in 0..MAX_CODE
            /\ (fn.result <=> (fn.mode = 0 \/ CodeEdgeIn(fn.buffer, code, fn.rising)))

\* C25: a running cycle in Normal or Single mode whose buffer holds no
\* qualifying edge writes nothing, leaves the controller running and the
\* configuration as it was; every cycle entered while running fills the
\* buffer anew and decides on that fill; a Normal-mode cycle leaves the
\* controller running whether it triggered or not.
C25_NoEdgeNoEmission ==
    [][ pc = "acquire" /\ is_running
        => /\ last' = "acquire"
           /\ pc' = "poll"
           /\ Len(temp_buffer') = BUFFER_SIZE
           /\ adc_buffer' = [i \in 1..BUFFER_SIZE |-> temp_buffer'[i] % (MAX_CODE + 1)]
           /\ (trigger_mode \in {1, 2}
               /\ ~EdgeIn(adc_buffer', trigger_level, trigger_edge)
               => tx' = <<>> /\ is_running' /\ config' = config)
           /\ (trigger_mode \in {1, 2}
               /\ EdgeIn(adc_buffer', trigger_level, trigger_edge)
               => DataCount(tx') = 1)
           /\ (trigger_mode = 1 => is_running') ]_vars

\* C25 witness: a Single-mode cycle at the default level, rising edge, whose
\* buffer only falls: nothing written, still running.
C25_Witness ==
    /\ last = "acquire"
    /\ trigger_mode = 2
    /\ trigger_level = 1650
    /\ trigger_edge
    /\ adc_buffer[1] = 3000 /\ adc_buffer[BUFFER_SIZE] = 0
    /\ ~EdgeIn(adc_buffer, trigger_level, trigger_edge)
    /\ is_running
    /\ tx = <<>>

\* The output of the i-th call of a 5-tap mean filter started at the first
\* sample of buffer and fed its samples in order: the mean of the last five
\* of five copies of the first sample followed by the first i samples.
Filtered(buffer, i) ==
    Frac(SumOfLast([j \in 1..5 |-> buffer[1]] \o SubSeq(buffer, 1, i), 5), 5)

\* The first raw sample and the filter outputs over the whole buffer.
Candidates(buffer) ==
    {Frac(buffer[1], 1)} \cup {Filtered(buffer, i) : i \in 1..Len(buffer)}

\* C26: the max and min of peak_mean are the largest and the smallest of the
\* first raw sample and the outputs of a 5-tap mean filter (started at the
\* first sample) over the whole buffer; its mean is the arithmetic mean of
\* the raw samples.
C26_FilteredExtrema ==
    fn.name = "peak_mean" =>
        /\ \E c \in Candidates(fn.buffer) : FracEq(fn.max, c)
        /\ \A c \in Candidates(fn.buffer) : ~FracGt(c, fn.max)
        /\ \E c \in Candidates(fn.buffer) : FracEq(fn.min, c)
        /\ \A c \in Candidates(fn.buffer) : ~FracLt(c, fn.min)
        /\ FracEq(fn.mean, Frac(SumTo(fn.buffer, Len(fn.buffer)), Len(fn.buffer)))

\* C26 witness: one full-scale sample among zeros: the max is the filtered
\* 4095 / 5, not the raw peak, and the mean is the raw 4095 / 4.
C26_Witness ==
    /\ fn.name = "peak_mean"
    /\ fn.buffer = <<0, 4095, 0, 0>>
    /\ FracEq(fn.max, Frac(819, 1))
    /\ FracEq(fn.min, Frac(0, 1))
    /\ FracEq(fn.mean, Frac(4095, 4))

\* C27: an acquisition cycle changes no configuration value; it changes the
\* run state only from running to stopped, only in Single mode and only when
\* it wrote a DATA frame; the run state goes from stopped to running only on
\* a START command.
C27_CycleFrame ==
    [][ /\ (pc = "acquire"
            => /\ config' = config
               /\ (is_running' # is_running
                   => /\ is_running /\ ~is_running'
                      /\ trigger_mode = 2
                      /\ DataCount(tx') = 1))
        /\ (~is_running /\ is_running'
            => pc = "poll" /\ Trim(cmd') = "START") ]_vars

\* C27 witness: a Single-mode cycle at a changed rate and probe factor has
\* stopped the controller after its DATA frame, the settings as they were.
C27_Witness ==
    /\ last = "acquire"
    /\ trigger_mode = 2
    /\ ~is_running
    /\ DataCount(tx) = 1
    /\ sample_rate = 50000
    /\ probe_attenuation = 100

\* The settings at power-on: 100 kHz, Auto, 1.65 V, rising edge, 1x probe.
PowerOn == <<100000, 0, 1650, TRUE, 1>>

\* C28: at power-on the controller is running with the power-on settings;
\* setup leaves them alone, and when no command arrives the first loop
\* iteration after the banner goes to an acquisition cycle that fills the
\* buffer and writes a DATA frame at 100 kHz, no START received.
C28_StartsRunning ==
    [][ /\ (pc = "setup"
            => /\ is_running /\ config = PowerOn
               /\ is_running' /\ config' = PowerOn)
        /\ (last = "setup" /\ cmd' = NoLine
            => /\ pc' = "acquire" /\ last' = "nocommand"
               /\ is_running' /\ config' = PowerOn /\ tx' = <<>>)
        /\ (pc = "acquire" /\ is_running /\ config = PowerOn
            => /\ Len(temp_buffer') = BUFFER_SIZE
               /\ Len(tx') = 1
               /\ tx'[1].head = "DATA:"
               /\ tx'[1].fields[1] = "100000"
               /\ tx'[1].samples = adc_buffer'
               /\ is_running') ]_vars

\* C28 witness: a cycle under the power-on settings has written its frame.
C28_Witness ==
    /\ last = "acquire"
    /\ is_running
    /\ config = PowerOn
    /\ temp_buffer = [i \in 1..BUFFER_SIZE |-> 64440]
    /\ Len(tx) = 1
    /\ tx[1].fields[1] = "100000"

\* C29: in Normal or Single mode, with a trigger level that scales above
\* 4095 (either edge) or to 0 or below (rising edge), check_trigger finds no
\* edge in any buffer: no cycle writes a DATA frame and a running controller
\* does not stop by itself.
C29_UnreachableLevel ==
    [][ /\ pc = "acquire" /\ is_running
        /\ trigger_mode \in {1, 2}
        /\ \/ trigger_level * MAX_CODE > MAX_CODE * FULL_SCALE_MV
           \/ trigger_level * MAX_CODE <= 0 /\ trigger_edge
        => /\ ~check_trigger(trigger_mode, adc_buffer', trigger_level, trigger_edge)
           /\ tx' = <<>>
           /\ is_running' ]_vars

\* C29 witness: Single mode at 5.0 V after a cycle that filled a rising
\* buffer: nothing written, still running.
C29_Witness ==
    /\ last = "acquire"
    /\ trigger_mode = 2
    /\ trigger_level = 5000
    /\ trigger_edge
    /\ adc_buffer[1] = 0 /\ adc_buffer[BUFFER_SIZE] = 3000
    /\ tx = <<>>
    /\ is_running

\* C30: with a stored trigger mode other than 0, 1 or 2 a cycle does what a
\* Normal-mode cycle does: it writes a DATA frame exactly when the edge scan
\* succeeds and it leaves the controller running.
C30_UnknownModeIsNormal ==
    [][ pc = "acquire" /\ is_running /\ trigger_mode \notin {0, 1, 2}
        => /\ tx' = IF check_trigger(1, adc_buffer', trigger_level, trigger_edge)
                    THEN <<DataLine(sample_rate, probe_attenuation, adc_buffer')>>
                    ELSE <<>>
           /\ (DataCount(tx') = 1
               <=> EdgeIn(adc_buffer', trigger_level, trigger_edge))
           /\ is_running'
           /\ config' = config ]_vars

\* C30 witness: mode 7, a falling buffer on the falling edge: the frame is
\* written and the controller is still running.
C30_Witness ==
    /\ last = "acquire"
    /\ trigger_mode = 7
    /\ ~trigger_edge
    /\ adc_buffer[1] = 3000 /\ adc_buffer[BUFFER_SIZE] = 0
    /\ DataCount(tx) = 1
    /\ is_running

====
